---- MODULE Spec2Model ----
(***************************************************************************)
(* State machine of the G1 robot telemetry client                          *)
(* (packages/web/src/cesium/vehicles/g1/G1Robot.ts): stream connection     *)
(* lifecycle, per-tick pose ingestion and the perception capture           *)
(* scheduler.  The browser side (WebSocket objects, the timer table, the   *)
(* capture provider's promises, the render pass, the clocks) is the        *)
(* environment.  Handlers are written as state transformers over a record  *)
(* of the fields, so that a handler that calls another one is the          *)
(* composition of both; an action commits the transformed record.          *)
(***************************************************************************)
EXTENDS Integers, Sequences, FiniteSets, TLC

\* ------------------------------------------------------------------ bounds
MaxSockets == 2
MaxMsgs == 3
MaxFixes == 1
MaxNow == 66
MaxProbes == 1
MaxCaptures == 2
MaxFrames == 64
MaxExtras == 2
MaxObstacles == 2
MaxObstacleCalls == 1

\* ------------------------------------------------------- program constants
NULL == 0
NaN == -1000000
minPoseApplyIntervalMs == 33
ReconnectDelayMs == 1500
frameCaptureIntervalMs == 2300
terrainProbeIntervalMs == 1500
StaticPoseRefreshMs == 220
PerfWindowMs == 5000
CaptureErrorCooldownMs == 6000
BlackNoticeCooldownMs == 8000
minTerrainSampleIntervalMs == 300
\* Heights are in centimetres: the plausibility bound of 3000, the snap
\* threshold of 12 and the moderate threshold of 2.
maxTerrainHeightCm == 300000
SnapDeltaCm == 1200
ModerateDeltaCm == 200
FastBlendPct == 75
SlowBlendPct == 50
\* Angles to blend: 0, 10, 90, 180, 190, 350, 360 and 370 degrees, and -10.
LerpAngles == {0, 1745, 15708, 31416, 33161, 61087, 62832, 64577, -1745}
\* Blend factors in percent: the ends, the middle, and the three rates in use.
LerpPcts == {0, 8, 32, 50, 72, 100}
\* Calls of the terrain sampler in a run.
MaxTerrainCalls == 3
\* Time between two frames: inside the sampling interval and past it.
TerrainSteps == {100, 300}
\* Base elevations: around the thresholds as seen from 0, and one out of bounds.
GlobeHeights == {NaN, -1300, 0, 1, 199, 201, 1200, 1201, 300001}
\* Visible-surface elevations.
ClampedHeights == {NaN, -201, 200}
\* The near-black threshold, 2.5, in tenths.
BlackLumaTenths == 25
NoLuma == -1
\* Average lumas of a rendered frame, in tenths: just below the threshold and on it.
Lumas == {24, 25}

\* Angles are integers in units of 1e-4 rad; speeds are in cm/s.
Pi == 31416
TwoPi == 2 * Pi
\* moveHeading === null
NullHeading == 1000000
\* modelHeadingOffset handed to the constructor: -Math.PI / 2
ConfigHeadingOffset == -(Pi \div 2)
MinCalibrationSpeed == 12
MaxCalibrationSamples == 360
OutlierErrorRad == 12217
FastClampRad == 2200
FastGainPct == 35
MinCorrectionRad == 1
AlignedErrorRad == 2618
AlignedStreakGoal == 20
FastLockSamples == 90
SlowClampRad == 400
SlowGainPct == 6
PersistEvery == 45
MotionBlendPct == 72
MovingSmoothingPct == 32
IdleSmoothingPct == 8

\* Elapsed time the clock may advance by between two events.
TimeSteps == {11, 33}
\* Values a pose message may carry; NaN stands for a missing or non-numeric field.
Stamps == {1, 2}
\* <<lat, lon>> pairs: two places, and a fix lacking either coordinate.
Fixes == {<<1, 1>>, <<2, 1>>, <<NaN, 1>>, <<1, NaN>>}
SocketIds == 1..MaxSockets
\* Time between two frames of a motion trace.
FramePeriodMs == 250
\* Frames of a staircase course.
MaxZigZagFrames == 364
\* The angle by which the reported orientation of a trace lags its course.
Thetas == {-12000, 0, 15708}
\* Arguments of a manual override; the second lies outside [-pi, pi].
ManualOffsets == {5000, 70000}
\* "edge" is a step whose speed comes to the calibration threshold exactly.
FrameKinds == {"fast", "slow", "edge", "still", "turn", "invalid"}
\* Obstacle candidates: two good ones, and one for each way of being unusable.
Candidates ==
  {[id |-> "a", lat |-> 1, lon |-> 1, radiusM |-> 2],
   [id |-> "b", lat |-> 2, lon |-> 1, radiusM |-> 1],
   [id |-> "", lat |-> 1, lon |-> 1, radiusM |-> 2],
   [id |-> "c", lat |-> NaN, lon |-> 1, radiusM |-> 2],
   [id |-> "d", lat |-> 1, lon |-> NaN, radiusM |-> 2],
   [id |-> "e", lat |-> 1, lon |-> 1, radiusM |-> NaN],
   [id |-> "f", lat |-> 1, lon |-> 1, radiusM |-> 0],
   [id |-> "g", lat |-> 1, lon |-> 1, radiusM |-> -1]}
CandidateLists == UNION {[1..n -> Candidates] : n \in 0..MaxObstacles}

IsFinite(x) == x # NaN

\* yaw: the heading of root.quat; pace: whether the timestamps make the
\* travelled distance a speed above ("fast") or below ("slow") the calibration
\* threshold.
NoPayload == [id |-> 0, t |-> NaN, lat |-> NaN, lon |-> NaN, yaw |-> 0, pace |-> "fast",
              status |-> FALSE, message |-> FALSE, error |-> FALSE]
\* localStorage item under the heading offset key: absent, a text that is not a
\* finite number, or a number.
NoItem == [kind |-> "none", v |-> 0]
TextItem == [kind |-> "text", v |-> 0]
NumItem(x) == [kind |-> "num", v |-> x]
\* What the browser may hold under the heading offset key at construction.
StoredItems == {NoItem, TextItem, NumItem(40000)}
NoSocket == [readyState |-> "NONE", errorFired |-> FALSE, closeFired |-> FALSE, sent |-> << >>]

VARIABLES
  \* G1Robot / Vehicle fields
  destroyed, ws, reconnectTimer, latestPayload, lastProcessedT,
  lastPoseApplyMs, currentLat, currentLon, lastStaticPoseRefreshMs,
  lastGeoLat, lastGeoLon, position, frameCaptureTimer, terrainProbeTimer,
  terrainProbeSeq, pendingVisionCapture, pendingVisionCaptureListener,
  pendingVisionCaptureRestore, lastCaptureErrorMs, lastBlackFrameNoticeMs,
  perfWindowStartedMs,
  perfPoseApplied, perfWsIn, sceneRef, visionCaptureProvider,
  \* environment: clock, sockets, timer table, promises, shared camera
  now, socks, nSocks, timeouts, intervals, providerCalls,
  capturesStarted, cameraRepointed, initPc,
  \* what the callbacks have been handed
  streamState, prevStreamState, liveChannel, visionFrames,
  \* history of the pose stream
  msgCount, lastPoseId, latestArrivalMs, latestArrivalT, latestInWindow,
  superseded, shadowed, appliedIds, heldId, missedIds, runApplies, runTicks,
  unsurfaced, malformedMutated, malformedHarmed, lastCandidates, obstacleCalls,
  nodeMapOutcome, lastLuma,
  \* orientation, heading calibration and its persisted value (localStorage)
  modelHeadingOffset, headingCalibrationSamples, headingFastLockComplete,
  headingAlignedStreak, smoothedHeadingRad, hpRollHeading, velocity,
  lastPosePosition, storage,
  \* link retargeting switches and the obstacle report counter
  enableLinkAnimation, nodeMapIdentity, dynamicObstacleSeq,
  \* further outputs: last obstacle list sent, status notices, last return value
  lastObstacles, rejections, statusCalls, setOffsetReturn,
  \* history of the calibration trace
  storageWritten, frames, extras, manualOffset, trueOffset, nanSets, zigzag, calVerdict,
  \* terrain height cache, the sample it was last offered, and the calls made
  terrainHeightM, terrainHeightValid, lastTerrainSampleMs, lastSampledHeight, terrainCalls,
  \* the last angle blend: its arguments and what it returned
  lerpCall

robotVars == <<destroyed, ws, reconnectTimer, latestPayload, lastProcessedT,
  lastPoseApplyMs, currentLat, currentLon, lastStaticPoseRefreshMs,
  lastGeoLat, lastGeoLon, position, frameCaptureTimer, terrainProbeTimer,
  terrainProbeSeq, pendingVisionCapture, pendingVisionCaptureListener,
  pendingVisionCaptureRestore, lastCaptureErrorMs, lastBlackFrameNoticeMs,
  perfWindowStartedMs,
  perfPoseApplied, perfWsIn, sceneRef, visionCaptureProvider>>

envVars == <<now, socks, nSocks, timeouts, intervals,
  providerCalls, capturesStarted, cameraRepointed, initPc>>

outVars == <<streamState, prevStreamState, liveChannel, visionFrames>>

histVars == <<msgCount, lastPoseId, latestArrivalMs, latestArrivalT, latestInWindow,
  superseded, shadowed, appliedIds, heldId, missedIds, runApplies, runTicks,
  unsurfaced, malformedMutated, malformedHarmed, lastCandidates, obstacleCalls,
  nodeMapOutcome, lastLuma>>

calVars == <<modelHeadingOffset, headingCalibrationSamples, headingFastLockComplete,
  headingAlignedStreak, smoothedHeadingRad, hpRollHeading, velocity,
  lastPosePosition, storage>>

miscVars == <<enableLinkAnimation, nodeMapIdentity, dynamicObstacleSeq, lastObstacles,
  rejections, statusCalls, setOffsetReturn, storageWritten, frames, extras,
  manualOffset, trueOffset, nanSets, zigzag, calVerdict>>

terrainVars == <<terrainHeightM, terrainHeightValid, lastTerrainSampleMs,
  lastSampledHeight, terrainCalls, lerpCall>>

vars == <<robotVars, envVars, outVars, histVars, calVars, miscVars, terrainVars>>

\* The state the render loop's pose application writes.
poseVars == <<currentLat, currentLon, lastStaticPoseRefreshMs, lastGeoLat,
  lastGeoLon, position>>

\* The current state as one record.
S == [destroyed |-> destroyed, ws |-> ws, reconnectTimer |-> reconnectTimer,
  latestPayload |-> latestPayload, lastProcessedT |-> lastProcessedT,
  lastPoseApplyMs |-> lastPoseApplyMs, currentLat |-> currentLat,
  currentLon |-> currentLon, lastStaticPoseRefreshMs |-> lastStaticPoseRefreshMs,
  lastGeoLat |-> lastGeoLat, lastGeoLon |-> lastGeoLon, position |-> position,
  frameCaptureTimer |-> frameCaptureTimer, terrainProbeTimer |-> terrainProbeTimer,
  terrainProbeSeq |-> terrainProbeSeq, pendingVisionCapture |-> pendingVisionCapture,
  pendingVisionCaptureListener |-> pendingVisionCaptureListener,
  pendingVisionCaptureRestore |-> pendingVisionCaptureRestore,
  lastCaptureErrorMs |-> lastCaptureErrorMs,
  lastBlackFrameNoticeMs |-> lastBlackFrameNoticeMs, lastLuma |-> lastLuma,
  perfWindowStartedMs |-> perfWindowStartedMs, perfPoseApplied |-> perfPoseApplied,
  perfWsIn |-> perfWsIn, sceneRef |-> sceneRef,
  visionCaptureProvider |-> visionCaptureProvider,
  now |-> now, socks |-> socks, nSocks |-> nSocks, timeouts |-> timeouts,
  intervals |-> intervals,
  providerCalls |-> providerCalls, capturesStarted |-> capturesStarted,
  cameraRepointed |-> cameraRepointed, initPc |-> initPc,
  streamState |-> streamState, prevStreamState |-> prevStreamState,
  liveChannel |-> liveChannel, visionFrames |-> visionFrames,
  msgCount |-> msgCount, lastPoseId |-> lastPoseId,
  latestArrivalMs |-> latestArrivalMs, latestArrivalT |-> latestArrivalT,
  latestInWindow |-> latestInWindow, superseded |-> superseded,
  shadowed |-> shadowed, appliedIds |-> appliedIds, heldId |-> heldId,
  missedIds |-> missedIds, runApplies |-> runApplies, runTicks |-> runTicks,
  modelHeadingOffset |-> modelHeadingOffset, headingCalibrationSamples |-> headingCalibrationSamples,
  headingFastLockComplete |-> headingFastLockComplete, headingAlignedStreak |-> headingAlignedStreak,
  smoothedHeadingRad |-> smoothedHeadingRad, hpRollHeading |-> hpRollHeading,
  velocity |-> velocity, lastPosePosition |-> lastPosePosition,
  enableLinkAnimation |-> enableLinkAnimation, nodeMapIdentity |-> nodeMapIdentity,
  dynamicObstacleSeq |-> dynamicObstacleSeq, storage |-> storage,
  lastObstacles |-> lastObstacles, rejections |-> rejections,
  statusCalls |-> statusCalls, setOffsetReturn |-> setOffsetReturn,
  storageWritten |-> storageWritten, frames |-> frames,
  extras |-> extras, manualOffset |-> manualOffset, trueOffset |-> trueOffset,
  unsurfaced |-> unsurfaced, malformedMutated |-> malformedMutated,
  malformedHarmed |-> malformedHarmed, lastCandidates |-> lastCandidates,
  obstacleCalls |-> obstacleCalls, nodeMapOutcome |-> nodeMapOutcome,
  nanSets |-> nanSets, zigzag |-> zigzag, calVerdict |-> calVerdict,
  terrainHeightM |-> terrainHeightM, terrainHeightValid |-> terrainHeightValid,
  lastTerrainSampleMs |-> lastTerrainSampleMs, lastSampledHeight |-> lastSampledHeight,
  terrainCalls |-> terrainCalls, lerpCall |-> lerpCall]

Commit(r) ==
  /\ destroyed' = r.destroyed
  /\ ws' = r.ws
  /\ reconnectTimer' = r.reconnectTimer
  /\ latestPayload' = r.latestPayload
  /\ lastProcessedT' = r.lastProcessedT
  /\ lastPoseApplyMs' = r.lastPoseApplyMs
  /\ currentLat' = r.currentLat
  /\ currentLon' = r.currentLon
  /\ lastStaticPoseRefreshMs' = r.lastStaticPoseRefreshMs
  /\ lastGeoLat' = r.lastGeoLat
  /\ lastGeoLon' = r.lastGeoLon
  /\ position' = r.position
  /\ frameCaptureTimer' = r.frameCaptureTimer
  /\ terrainProbeTimer' = r.terrainProbeTimer
  /\ terrainProbeSeq' = r.terrainProbeSeq
  /\ pendingVisionCapture' = r.pendingVisionCapture
  /\ pendingVisionCaptureListener' = r.pendingVisionCaptureListener
  /\ pendingVisionCaptureRestore' = r.pendingVisionCaptureRestore
  /\ lastCaptureErrorMs' = r.lastCaptureErrorMs
  /\ lastBlackFrameNoticeMs' = r.lastBlackFrameNoticeMs
  /\ lastLuma' = r.lastLuma
  /\ perfWindowStartedMs' = r.perfWindowStartedMs
  /\ perfPoseApplied' = r.perfPoseApplied
  /\ perfWsIn' = r.perfWsIn
  /\ sceneRef' = r.sceneRef
  /\ visionCaptureProvider' = r.visionCaptureProvider
  /\ now' = r.now
  /\ socks' = r.socks
  /\ nSocks' = r.nSocks
  /\ timeouts' = r.timeouts
  /\ intervals' = r.intervals
  /\ providerCalls' = r.providerCalls
  /\ capturesStarted' = r.capturesStarted
  /\ cameraRepointed' = r.cameraRepointed
  /\ initPc' = r.initPc
  /\ streamState' = r.streamState
  /\ prevStreamState' = r.prevStreamState
  /\ liveChannel' = r.liveChannel
  /\ visionFrames' = r.visionFrames
  /\ msgCount' = r.msgCount
  /\ lastPoseId' = r.lastPoseId
  /\ latestArrivalMs' = r.latestArrivalMs
  /\ latestArrivalT' = r.latestArrivalT
  /\ latestInWindow' = r.latestInWindow
  /\ superseded' = r.superseded
  /\ shadowed' = r.shadowed
  /\ appliedIds' = r.appliedIds
  /\ heldId' = r.heldId
  /\ missedIds' = r.missedIds
  /\ runApplies' = r.runApplies
  /\ runTicks' = r.runTicks
  /\ modelHeadingOffset' = r.modelHeadingOffset
  /\ headingCalibrationSamples' = r.headingCalibrationSamples
  /\ headingFastLockComplete' = r.headingFastLockComplete
  /\ headingAlignedStreak' = r.headingAlignedStreak
  /\ smoothedHeadingRad' = r.smoothedHeadingRad
  /\ hpRollHeading' = r.hpRollHeading
  /\ velocity' = r.velocity
  /\ lastPosePosition' = r.lastPosePosition
  /\ enableLinkAnimation' = r.enableLinkAnimation
  /\ nodeMapIdentity' = r.nodeMapIdentity
  /\ dynamicObstacleSeq' = r.dynamicObstacleSeq
  /\ storage' = r.storage
  /\ lastObstacles' = r.lastObstacles
  /\ rejections' = r.rejections
  /\ statusCalls' = r.statusCalls
  /\ setOffsetReturn' = r.setOffsetReturn
  /\ storageWritten' = r.storageWritten
  /\ frames' = r.frames
  /\ extras' = r.extras
  /\ manualOffset' = r.manualOffset
  /\ trueOffset' = r.trueOffset
  /\ unsurfaced' = r.unsurfaced
  /\ malformedMutated' = r.malformedMutated
  /\ malformedHarmed' = r.malformedHarmed
  /\ lastCandidates' = r.lastCandidates
  /\ obstacleCalls' = r.obstacleCalls
  /\ nodeMapOutcome' = r.nodeMapOutcome
  /\ nanSets' = r.nanSets
  /\ zigzag' = r.zigzag
  /\ calVerdict' = r.calVerdict
  /\ terrainHeightM' = r.terrainHeightM
  /\ terrainHeightValid' = r.terrainHeightValid
  /\ lastTerrainSampleMs' = r.lastTerrainSampleMs
  /\ lastSampledHeight' = r.lastSampledHeight
  /\ terrainCalls' = r.terrainCalls
  /\ lerpCall' = r.lerpCall

\* ------------------------------------------------------------ environment
\* Date.now(): wall-clock milliseconds, far above any stream timestamp.
DateNow(s) == 1000000 + s.now

\* WebSocket.close(): a connecting or open socket starts closing; its close
\* event is delivered later.  Closing an already closing/closed socket does nothing.
SocketClose(s, i) ==
  IF s.socks[i].readyState \in {"CONNECTING", "OPEN"}
  THEN [s EXCEPT !.socks[i].readyState = "CLOSING"]
  ELSE s

\* this.ws = null.  A socket that has delivered its close event is unreachable
\* once the robot drops it: what is left of it is the fact that it closed.
ClosedSocket == [readyState |-> "CLOSED", errorFired |-> FALSE, closeFired |-> TRUE, sent |-> << >>]
Unreference(s, i) ==
  [s EXCEPT !.ws = NULL,
            !.socks[i] = IF @.closeFired THEN ClosedSocket ELSE @]

\* The handle window.setTimeout / window.setInterval returns: an id that no
\* active timer has and that the robot holds no reference to.
NewTimerId(s) ==
  LET used == {t.id : t \in s.timeouts} \cup {t.id : t \in s.intervals}
                \cup {s.reconnectTimer, s.frameCaptureTimer, s.terrainProbeTimer}
  IN CHOOSE n \in 1..6 : n \notin used /\ \A k \in 1..(n - 1) : k \in used

\* window.clearTimeout / window.clearInterval
ClearTimeout(s, h) == [s EXCEPT !.timeouts = {t \in @ : t.id # h}]
ClearInterval(s, h) == [s EXCEPT !.intervals = {t \in @ : t.id # h}]

\* ---------------------------------------------------------------- G1Robot
\* An emitter that lets the listener believe the stream went offline in between.
emitAfterOffline(s, state) ==
  [s EXCEPT !.prevStreamState = "offline", !.streamState = state]

\* streamState is the state the callback was handed last, prevStreamState the
\* one before it.
emitStreamState(s, state) ==
  [s EXCEPT !.prevStreamState = s.streamState, !.streamState = state]

canSendToServer(s) == s.ws # NULL /\ s.socks[s.ws].readyState = "OPEN"

sendWsPayload(s, type) ==
  IF ~canSendToServer(s) THEN s
  ELSE [s EXCEPT !.socks[s.ws].sent = Append(@, type)]

buildRobotTelemetry(s) == s.currentLat # NULL /\ s.currentLon # NULL

\* A cancellation that frees the slot and leaves the camera where it points.
cancelWithoutRestore(s) ==
  [s EXCEPT !.pendingVisionCaptureListener = FALSE,
            !.pendingVisionCaptureRestore = FALSE,
            !.pendingVisionCapture = FALSE]

cancelPendingVisionCapture(s) ==
  [s EXCEPT !.pendingVisionCaptureListener = FALSE,
            !.cameraRepointed = IF s.pendingVisionCaptureRestore THEN FALSE ELSE @,
            !.pendingVisionCaptureRestore = FALSE,
            !.pendingVisionCapture = FALSE]

stopPerceptionStreaming(s) ==
  LET c == cancelPendingVisionCapture(s)
      f == IF c.frameCaptureTimer # NULL
           THEN [ClearInterval(c, c.frameCaptureTimer) EXCEPT !.frameCaptureTimer = NULL]
           ELSE c
  IN IF f.terrainProbeTimer # NULL
     THEN [ClearInterval(f, f.terrainProbeTimer) EXCEPT !.terrainProbeTimer = NULL]
     ELSE f

maybeEmitPerfStatus(s) ==
  IF s.now - s.perfWindowStartedMs < PerfWindowMs THEN s
  ELSE [s EXCEPT !.perfWindowStartedMs = s.now, !.perfPoseApplied = 0, !.perfWsIn = 0]

\* resolved: whether any sample of the probe fan resolved to a height.
sendTerrainProbe(s, resolved) ==
  IF ~canSendToServer(s) \/ ~s.sceneRef THEN s
  ELSE IF ~buildRobotTelemetry(s) THEN s
  ELSE IF ~resolved THEN s
  ELSE maybeEmitPerfStatus(
         sendWsPayload([s EXCEPT !.terrainProbeSeq = @ + 1], "terrain_probe"))

\* A start that sets new timers without stopping the ones that run.
startWithoutStop(s, resolved) ==
  LET f == [s EXCEPT
             !.frameCaptureTimer = NewTimerId(s),
             !.intervals = @ \cup
                {[id |-> NewTimerId(s), kind |-> "camera", ms |-> frameCaptureIntervalMs]}]
      t == [f EXCEPT
             !.terrainProbeTimer = NewTimerId(f),
             !.intervals = @ \cup
                {[id |-> NewTimerId(f), kind |-> "probe", ms |-> terrainProbeIntervalMs]}]
  IN sendTerrainProbe(t, resolved)

startPerceptionStreaming(s, resolved) ==
  LET c == stopPerceptionStreaming(s)
      f == [c EXCEPT
             !.frameCaptureTimer = NewTimerId(c),
             !.intervals = @ \cup
                {[id |-> NewTimerId(c), kind |-> "camera", ms |-> frameCaptureIntervalMs]}]
      t == [f EXCEPT
             !.terrainProbeTimer = NewTimerId(f),
             !.intervals = @ \cup
                {[id |-> NewTimerId(f), kind |-> "probe", ms |-> terrainProbeIntervalMs]}]
  IN sendTerrainProbe(t, resolved)

connectStream(s) ==
  IF s.destroyed THEN s
  ELSE LET c == stopPerceptionStreaming(s)
           d == IF c.ws # NULL THEN Unreference(SocketClose(c, c.ws), c.ws) ELSE c
           e == emitStreamState(d, "connecting")
       IN [e EXCEPT !.nSocks = @ + 1,
                    !.ws = e.nSocks + 1,
                    !.socks[e.nSocks + 1] = [NoSocket EXCEPT !.readyState = "CONNECTING"]]

onopen(s, resolved) ==
  sendWsPayload(startPerceptionStreaming(emitStreamState(s, "live"), resolved),
                "session_start")

\* An error handler that leaves the scheduler running.
onerrorKeepsStreaming(s) == emitStreamState(s, "offline")

\* An error handler that schedules a reconnect of its own, as onclose does.
onerrorSchedules(s) ==
  LET c == stopPerceptionStreaming(emitStreamState(s, "offline"))
  IN IF c.destroyed THEN c
     ELSE [c EXCEPT !.reconnectTimer = NewTimerId(c),
                    !.timeouts = @ \cup {[id |-> NewTimerId(c), ms |-> ReconnectDelayMs]}]

onerror(s) == stopPerceptionStreaming(emitStreamState(s, "offline"))

\* A close handler that schedules no reconnect.
oncloseNoReconnect(s) == stopPerceptionStreaming(emitStreamState(s, "offline"))

onclose(s) ==
  LET c == stopPerceptionStreaming(emitStreamState(s, "offline"))
  IN IF c.destroyed THEN c
     ELSE LET d == IF c.reconnectTimer # NULL THEN ClearTimeout(c, c.reconnectTimer) ELSE c
          IN [d EXCEPT !.reconnectTimer = NewTimerId(d),
                       !.timeouts = @ \cup {[id |-> NewTimerId(d), ms |-> ReconnectDelayMs]}]

\* A teardown that leaves a pending reconnect timer alone.
destroyKeepsReconnect(s) ==
  LET a == stopPerceptionStreaming(cancelPendingVisionCapture([s EXCEPT !.destroyed = TRUE]))
      c == IF a.ws # NULL THEN Unreference(SocketClose(a, a.ws), a.ws) ELSE a
  IN emitStreamState(c, "offline")

destroy(s) ==
  LET a == stopPerceptionStreaming(cancelPendingVisionCapture([s EXCEPT !.destroyed = TRUE]))
      b == IF a.reconnectTimer # NULL
           THEN [ClearTimeout(a, a.reconnectTimer) EXCEPT !.reconnectTimer = NULL]
           ELSE a
      c == IF b.ws # NULL THEN Unreference(SocketClose(b, b.ws), b.ws) ELSE b
  IN emitStreamState(c, "offline")

\* ---------------------------------------------------- joint map
\* How the fetch of the joint map ends: a file with a map ("file"), a file
\* that switches animation off ("disabledFile"), a rejected fetch
\* ("networkError"), a response that is not ok, e.g. 404 ("notOk"), a body
\* that is not JSON ("badJson").
NodeMapOutcomes == {"file", "disabledFile", "networkError", "notOk", "badJson"}

\* nodeMapIdentity: nodeMap is {} and ignoredNodes is empty.
loadNodeMap(s, outcome) ==
  IF outcome = "notOk" THEN s
  ELSE IF outcome \in {"file", "disabledFile"}
  THEN [s EXCEPT !.nodeMapIdentity = FALSE,
                 !.enableLinkAnimation = outcome # "disabledFile"]
  ELSE [s EXCEPT !.nodeMapIdentity = TRUE, !.enableLinkAnimation = TRUE]

\* ---------------------------------------------------- obstacle reports
\* A filter that lets a radius of zero or less through.
keepsAnyRadius(item) ==
  /\ item.id # ""
  /\ IsFinite(item.lat)
  /\ IsFinite(item.lon)
  /\ IsFinite(item.radiusM)

\* The filter of sendDynamicObstacles.
keepsObstacle(item) ==
  /\ item.id # ""
  /\ IsFinite(item.lat)
  /\ IsFinite(item.lon)
  /\ IsFinite(item.radiusM)
  /\ item.radiusM > 0

sendDynamicObstacles(s, obstacles) ==
  IF ~canSendToServer(s) THEN s
  ELSE IF Len(obstacles) = 0 THEN s
  ELSE LET cleaned == SelectSeq(obstacles, keepsObstacle)
       IN IF Len(cleaned) = 0 THEN s
          ELSE sendWsPayload([s EXCEPT !.dynamicObstacleSeq = @ + 1,
                                       !.lastObstacles = cleaned],
                             "dynamic_obstacles")

\* ---------------------------------------------------- pose ingestion
\* A parsed inbound message.  status: type === 'status'; message: message is a
\* string; error: a non-empty error string; hasRoot: a root pose object is
\* present.  A status or error message of the model carries a root as well.
PoseMessages ==
  {[malformed |-> FALSE, status |-> FALSE, message |-> FALSE, error |-> FALSE,
    hasRoot |-> TRUE, t |-> t, lat |-> f[1], lon |-> f[2], yaw |-> 0, pace |-> "fast"] :
     t \in Stamps \cup {NaN}, f \in Fixes}
OtherMessages ==
  [malformed : {TRUE}, status : {FALSE}, message : {FALSE}, error : {FALSE},
   hasRoot : {FALSE}, t : {NaN}, lat : {NaN}, lon : {NaN}, yaw : {0}, pace : {"fast"}]
  \cup [malformed : {FALSE}, status : {FALSE}, message : {FALSE}, error : {FALSE},
        hasRoot : {FALSE}, t : {1}, lat : {1}, lon : {1}, yaw : {0}, pace : {"fast"}]
  \cup [malformed : {FALSE}, status : BOOLEAN, message : BOOLEAN, error : BOOLEAN,
        hasRoot : {TRUE}, t : {2}, lat : {2}, lon : {1}, yaw : {0}, pace : {"fast"}]
\* Of the messages with a root, those an error or a status type sets apart
\* from a pose message.
Messages ==
  PoseMessages \cup {m \in OtherMessages :
                      \/ ~m.hasRoot
                      \/ (m.error /\ ~m.status /\ ~m.message)
                      \/ (m.status /\ ~m.error)}
FixMessages == {m \in PoseMessages : m.t = 1 /\ m.lat = 1 /\ m.lon = 1}

\* A one-slot queue instead of a latest-wins slot: a payload that no tick has
\* looked at yet is not overwritten.
storeUnlessUnprocessed(s, m) ==
  IF s.latestPayload.id # 0 /\ s.latestPayload.t # s.lastProcessedT THEN s
  ELSE [s EXCEPT !.latestPayload = [id |-> s.msgCount + 1, t |-> m.t, lat |-> m.lat, lon |-> m.lon,
                                     yaw |-> m.yaw, pace |-> m.pace, status |-> m.status,
                                     message |-> m.message, error |-> m.error]]

\* this.latestPayload = payload
storeLatest(s, m) ==
  [s EXCEPT !.latestPayload = [id |-> s.msgCount + 1, t |-> m.t, lat |-> m.lat, lon |-> m.lon,
                                     yaw |-> m.yaw, pace |-> m.pace, status |-> m.status,
                                     message |-> m.message, error |-> m.error]]

\* A handler that looks for the root pose first.
onmessageRootFirst(s, m) ==
  LET a == [s EXCEPT !.perfWsIn = @ + 1]
  IN IF m.malformed THEN a
     ELSE LET b == IF m.hasRoot THEN storeLatest(a, m) ELSE a
          IN IF (m.status /\ m.message) \/ m.error
             THEN [b EXCEPT !.statusCalls = @ + 1]
             ELSE b

\* A handler whose catch block drops the stored payload.
onmessageDropsOnError(s, m) ==
  LET a == [s EXCEPT !.perfWsIn = @ + 1]
  IN IF m.malformed THEN [a EXCEPT !.latestPayload = NoPayload]
     ELSE IF (m.status /\ m.message) \/ m.error THEN [a EXCEPT !.statusCalls = @ + 1]
     ELSE IF m.hasRoot THEN storeLatest(a, m)
     ELSE a

onmessage(s, m) ==
  LET a == [s EXCEPT !.perfWsIn = @ + 1]
  IN IF m.malformed THEN a
     ELSE IF m.status /\ m.message THEN [a EXCEPT !.statusCalls = @ + 1]
     ELSE IF m.error THEN [a EXCEPT !.statusCalls = @ + 1]
     ELSE IF m.hasRoot THEN storeLatest(a, m)
     ELSE a

\* An update() without the timestamp check.
neverProcessed(s, stamp) == FALSE

\* update(): the stored payload carries the timestamp processed last
alreadyProcessed(s, stamp) == IsFinite(stamp) /\ stamp = s.lastProcessedT

\* update(): nowMs - this.lastPoseApplyMs < this.minPoseApplyIntervalMs
rateLimited(s) == s.now - s.lastPoseApplyMs < minPoseApplyIntervalMs

\* ---------------------------------------------------- orientation, calibration
Abs(x) == IF x < 0 THEN -x ELSE x

\* Cesium.Math.clamp
Clamp(x, lo, hi) == IF x < lo THEN lo ELSE IF x > hi THEN hi ELSE x

\* x * pct / 100, rounded to the nearest unit
Scale(x, pct) ==
  IF x < 0 THEN -(((-x) * pct + 50) \div 100) ELSE (x * pct + 50) \div 100

\* Cesium.Math.zeroToTwoPi: an angle in [0, 2pi]; 2pi itself is kept.
zeroToTwoPi(angle) ==
  IF angle >= 0 /\ angle <= TwoPi THEN angle
  ELSE IF angle % TwoPi = 0 THEN TwoPi ELSE angle % TwoPi

\* A blend along the straight difference of the two angles, never across 0.
lerpWithoutWrap(start, end, pct) ==
  LET normalizedStart == zeroToTwoPi(start)
      normalizedEnd == zeroToTwoPi(end)
  IN zeroToTwoPi(normalizedStart + Scale(normalizedEnd - normalizedStart, pct))

lerpAngle(start, end, pct) ==
  LET normalizedStart == zeroToTwoPi(start)
      normalizedEnd == zeroToTwoPi(end)
      d == normalizedEnd - normalizedStart
      delta == IF d > Pi THEN d - TwoPi ELSE IF d < -Pi THEN d + TwoPi ELSE d
  IN zeroToTwoPi(normalizedStart + Scale(delta, pct))

\* An angle left as it is.
keepAngle(rad) == rad

RECURSIVE normalizeSignedAngle(_)
normalizeSignedAngle(rad) ==
  IF rad > Pi THEN normalizeSignedAngle(rad - TwoPi)
  ELSE IF rad < -Pi THEN normalizeSignedAngle(rad + TwoPi)
  ELSE rad

\* The offset after the constructor read item from localStorage.
loadHeadingOffsetFromStorage(offset, item) ==
  IF item.kind = "num" THEN normalizeSignedAngle(item.v) ELSE offset

persistHeadingOffset(s) ==
  [s EXCEPT !.storage = NumItem(s.modelHeadingOffset), !.storageWritten = TRUE]

\* A calibration that never learns.
neverCalibrates(s, moveHeading) == s

\* A calibration step that lets outliers through.
calibratesOutliers(s, moveHeading) ==
  IF moveHeading = NullHeading THEN s
  ELSE IF s.velocity < MinCalibrationSpeed THEN s
  ELSE IF s.headingCalibrationSamples >= MaxCalibrationSamples THEN s
  ELSE LET error == normalizeSignedAngle(moveHeading - (s.hpRollHeading + s.modelHeadingOffset))
       IN [s EXCEPT !.calVerdict = IF Abs(error) > OutlierErrorRad THEN "outlier" ELSE "sample",
                    !.headingCalibrationSamples = @ + 1,
                    !.headingAlignedStreak = IF Abs(error) <= AlignedErrorRad THEN @ + 1 ELSE 0]

\* calVerdict notes where the step left: at one of its guards, or as a sample.
maybeAutoCalibrateHeading(s, moveHeading) ==
  IF moveHeading = NullHeading THEN [s EXCEPT !.calVerdict = "noHeading"]
  ELSE IF s.velocity < MinCalibrationSpeed THEN [s EXCEPT !.calVerdict = "tooSlow"]
  ELSE IF s.headingCalibrationSamples >= MaxCalibrationSamples
       THEN [s EXCEPT !.calVerdict = "exhausted"]
  ELSE LET modelHeading == s.hpRollHeading + s.modelHeadingOffset
           error == normalizeSignedAngle(moveHeading - modelHeading)
       IN IF Abs(error) > OutlierErrorRad THEN [s EXCEPT !.calVerdict = "outlier"]
          ELSE IF ~s.headingFastLockComplete
          THEN LET clamped == Clamp(error, -FastClampRad, FastClampRad)
                   a == [s EXCEPT
                           !.calVerdict = "sample",
                           !.modelHeadingOffset =
                              IF Abs(clamped * FastGainPct) > 100 * MinCorrectionRad
                              THEN normalizeSignedAngle(@ + Scale(clamped, FastGainPct))
                              ELSE @,
                           !.headingCalibrationSamples = @ + 1,
                           !.headingAlignedStreak =
                              IF Abs(error) <= AlignedErrorRad THEN @ + 1 ELSE 0]
               IN IF a.headingAlignedStreak >= AlignedStreakGoal
                     \/ a.headingCalibrationSamples >= FastLockSamples
                  THEN [persistHeadingOffset([a EXCEPT !.headingFastLockComplete = TRUE])
                          EXCEPT !.statusCalls = @ + 1]
                  ELSE a
          ELSE LET clamped == Clamp(error, -SlowClampRad, SlowClampRad)
               IN IF Abs(clamped * SlowGainPct) < 100 * MinCorrectionRad
                  THEN [s EXCEPT !.calVerdict = "sample"]
                  ELSE LET a == [s EXCEPT
                                   !.calVerdict = "sample",
                                   !.modelHeadingOffset =
                                      normalizeSignedAngle(@ + Scale(clamped, SlowGainPct)),
                                   !.headingCalibrationSamples = @ + 1]
                       IN IF a.headingCalibrationSamples % PersistEvery = 0
                          THEN [persistHeadingOffset(a) EXCEPT !.statusCalls = @ + 1]
                          ELSE a

\* A manual override that leaves automatic calibration running.
setWithoutStopping(s, offsetRad) ==
  IF ~IsFinite(offsetRad) THEN [s EXCEPT !.setOffsetReturn = s.modelHeadingOffset]
  ELSE LET a == persistHeadingOffset(
                  [s EXCEPT !.modelHeadingOffset = normalizeSignedAngle(offsetRad)])
       IN [a EXCEPT !.setOffsetReturn = a.modelHeadingOffset]

\* A manual override that takes a non-number for a reset to zero.
setTreatsNaNAsZero(s, offsetRad) ==
  LET a == persistHeadingOffset(
             [s EXCEPT !.modelHeadingOffset =
                         IF IsFinite(offsetRad) THEN normalizeSignedAngle(offsetRad) ELSE 0,
                       !.headingCalibrationSamples = MaxCalibrationSamples,
                       !.headingFastLockComplete = TRUE,
                       !.headingAlignedStreak = 0])
  IN [a EXCEPT !.setOffsetReturn = a.modelHeadingOffset]

\* A manual override that starts calibration over.
setRestartsCalibration(s, offsetRad) ==
  IF ~IsFinite(offsetRad) THEN [s EXCEPT !.setOffsetReturn = s.modelHeadingOffset]
  ELSE LET a == persistHeadingOffset(
                  [s EXCEPT !.modelHeadingOffset = normalizeSignedAngle(offsetRad)])
       IN [a EXCEPT !.headingCalibrationSamples = 0,
                    !.headingFastLockComplete = FALSE,
                    !.headingAlignedStreak = 0,
                    !.setOffsetReturn = a.modelHeadingOffset]

setModelHeadingOffsetRad(s, offsetRad) ==
  IF ~IsFinite(offsetRad) THEN [s EXCEPT !.setOffsetReturn = s.modelHeadingOffset]
  ELSE LET a == persistHeadingOffset(
                  [s EXCEPT !.modelHeadingOffset = normalizeSignedAngle(offsetRad)])
       IN [a EXCEPT !.headingCalibrationSamples = MaxCalibrationSamples,
                    !.headingFastLockComplete = TRUE,
                    !.headingAlignedStreak = 0,
                    !.setOffsetReturn = a.modelHeadingOffset]

\* rawHeading: the heading of the payload's quaternion.
applyRootTransform(s, rawHeading, moveHeading) ==
  LET h0 == IF IsFinite(rawHeading) THEN rawHeading ELSE s.smoothedHeadingRad
      h1 == IF moveHeading # NullHeading
            THEN LET targetBodyHeading == normalizeSignedAngle(moveHeading - s.modelHeadingOffset)
                 IN IF IsFinite(h0) THEN lerpAngle(h0, targetBodyHeading, MotionBlendPct)
                    ELSE targetBodyHeading
            ELSE h0
      heading == IF IsFinite(h1) THEN h1 ELSE 0
      smoothing == IF moveHeading # NullHeading THEN MovingSmoothingPct ELSE IdleSmoothingPct
      smoothed == IF ~IsFinite(s.smoothedHeadingRad) THEN heading
                  ELSE lerpAngle(s.smoothedHeadingRad, heading, smoothing)
  IN maybeAutoCalibrateHeading(
       [s EXCEPT !.smoothedHeadingRad = smoothed,
                 !.hpRollHeading = zeroToTwoPi(smoothed)], moveHeading)

\* The heading of the step from the previous fix to <<lat, lon>>; the fixes of
\* the model lie on a grid, and a step runs along one axis of it.
estimateMotionHeading(s, lat, lon) ==
  IF s.lastGeoLat = NULL \/ s.lastGeoLon = NULL THEN NullHeading
  ELSE IF lat = s.lastGeoLat /\ lon = s.lastGeoLon THEN NullHeading
  ELSE IF lat > s.lastGeoLat THEN 0
  ELSE IF lat < s.lastGeoLat THEN Pi
  ELSE IF lon > s.lastGeoLon THEN Pi \div 2
  ELSE -(Pi \div 2)

\* pace: what distance / dt comes to for a frame that moved.
updateSpeedEstimate(s, pace) ==
  IF s.lastPosePosition = << >>
  THEN [s EXCEPT !.lastPosePosition = s.position, !.velocity = 0]
  ELSE [s EXCEPT !.velocity = IF s.position = s.lastPosePosition THEN 0
                              ELSE IF pace = "fast" THEN 100
                              ELSE IF pace = "edge" THEN MinCalibrationSpeed
                              ELSE 5,
                 !.lastPosePosition = s.position]

\* An applyPose that lacks the check of the coordinates.
applyPoseUnchecked(s, payload) ==
  LET moveHeading == estimateMotionHeading(s, payload.lat, payload.lon)
      a == [s EXCEPT !.lastStaticPoseRefreshMs = s.now,
                     !.currentLat = payload.lat,
                     !.currentLon = payload.lon,
                     !.position = <<payload.lat, payload.lon>>,
                     !.lastGeoLat = payload.lat,
                     !.lastGeoLon = payload.lon]
  IN updateSpeedEstimate(applyRootTransform(a, payload.yaw, moveHeading), payload.pace)

applyPose(s, payload) ==
  IF ~IsFinite(payload.lat) \/ ~IsFinite(payload.lon) THEN s
  ELSE IF /\ s.currentLat # NULL /\ s.currentLon # NULL
          /\ payload.lat = s.currentLat /\ payload.lon = s.currentLon
          /\ s.now - s.lastStaticPoseRefreshMs < StaticPoseRefreshMs
       THEN s
  ELSE LET moveHeading == estimateMotionHeading(s, payload.lat, payload.lon)
           a == [s EXCEPT !.lastStaticPoseRefreshMs = s.now,
                          !.currentLat = payload.lat,
                          !.currentLon = payload.lon,
                          !.position = <<payload.lat, payload.lon>>,
                          !.lastGeoLat = payload.lat,
                          !.lastGeoLon = payload.lon]
       IN updateSpeedEstimate(applyRootTransform(a, payload.yaw, moveHeading), payload.pace)

\* Whether update() reaches applyPose in state s.
updateApplies(s) ==
  /\ s.latestPayload.id # 0
  /\ ~alreadyProcessed(s, s.latestPayload.t)
  /\ ~rateLimited(s)

update(s) ==
  LET payload == s.latestPayload
      stamp == payload.t
  IN IF payload.id = 0 THEN s
     ELSE IF alreadyProcessed(s, stamp) THEN s
     ELSE LET a == [s EXCEPT !.lastProcessedT = IF IsFinite(stamp) THEN stamp ELSE DateNow(s)]
          IN IF rateLimited(a) THEN a
             ELSE maybeEmitPerfStatus(
                    applyPose([a EXCEPT !.lastPoseApplyMs = a.now,
                                        !.perfPoseApplied = @ + 1], payload))

\* ---------------------------------------------------- camera capture
captureErrorNotice(s) ==
  IF DateNow(s) - s.lastCaptureErrorMs > CaptureErrorCooldownMs
  THEN [s EXCEPT !.lastCaptureErrorMs = DateNow(s), !.statusCalls = @ + 1]
  ELSE s

restoreCamera(s) == IF ~s.sceneRef THEN s ELSE [s EXCEPT !.cameraRepointed = FALSE]

clearPendingCapture(s) ==
  [s EXCEPT !.pendingVisionCaptureListener = FALSE,
            !.pendingVisionCaptureRestore = FALSE,
            !.pendingVisionCapture = FALSE]

\* throws: camera.setView or the listener registration raises.
captureWithVisionRig(s, throws) ==
  IF ~s.sceneRef \/ s.pendingVisionCapture THEN s
  ELSE IF throws THEN captureErrorNotice(clearPendingCapture(restoreCamera(s)))
  ELSE [s EXCEPT !.pendingVisionCapture = TRUE,
                 !.pendingVisionCaptureRestore = TRUE,
                 !.cameraRepointed = TRUE,
                 !.pendingVisionCaptureListener = TRUE,
                 !.capturesStarted = @ + 1]

sendCameraFrame(s, throws) ==
  IF ~canSendToServer(s) \/ s.pendingVisionCapture THEN s
  ELSE IF ~buildRobotTelemetry(s) THEN s
  ELSE IF s.visionCaptureProvider
       THEN [s EXCEPT !.pendingVisionCapture = TRUE,
                      !.providerCalls = @ \cup {s.capturesStarted + 1},
                      !.capturesStarted = @ + 1]
       ELSE captureWithVisionRig(s, throws)

\* Whether a camera timer tick starts a capture in state s.
cameraTickStarts(s) ==
  canSendToServer(s) /\ ~s.pendingVisionCapture /\ buildRobotTelemetry(s)

\* A settlement that frees the slot on fulfilment only.
providerSettledKeepsSlot(s, c, outcome) ==
  LET a == IF outcome = "frame"
           THEN sendWsPayload([s EXCEPT !.visionFrames = @ + 1], "camera_frame")
           ELSE IF outcome = "rejected" THEN captureErrorNotice(s)
           ELSE s
  IN maybeEmitPerfStatus([a EXCEPT !.pendingVisionCapture = outcome = "rejected" /\ @,
                                   !.providerCalls = @ \ {c}])

\* The provider's promise settles: .then / .catch, then .finally.
providerSettled(s, c, outcome) ==
  LET a == IF outcome = "frame"
           THEN sendWsPayload([s EXCEPT !.visionFrames = @ + 1], "camera_frame")
           ELSE IF outcome = "rejected" THEN captureErrorNotice(s)
           ELSE s
  IN maybeEmitPerfStatus([a EXCEPT !.pendingVisionCapture = FALSE,
                                   !.providerCalls = @ \ {c}])

\* luma: ten times the average luma the probe canvas measures, NoLuma when
\* the probe has no 2d context or reading the canvas throws.
isFrameLikelyBlack(s, luma) ==
  IF ~s.sceneRef THEN FALSE
  ELSE IF luma = NoLuma THEN FALSE
  ELSE luma < BlackLumaTenths

blackFrameNotice(s) ==
  IF DateNow(s) - s.lastBlackFrameNoticeMs > BlackNoticeCooldownMs
  THEN [s EXCEPT !.lastBlackFrameNoticeMs = DateNow(s), !.statusCalls = @ + 1]
  ELSE s

\* A listener that sends the frame whatever its luma.
postRenderSendsBlack(s, black, throws) ==
  LET a == IF ~s.sceneRef THEN s
           ELSE IF throws THEN captureErrorNotice(s)
           ELSE sendWsPayload([s EXCEPT !.visionFrames = @ + 1], "camera_frame")
  IN maybeEmitPerfStatus(clearPendingCapture(restoreCamera(a)))

\* The postRender listener of the built-in capture.
postRenderListener(s, black, throws) ==
  LET a == IF ~s.sceneRef THEN s
           ELSE IF black THEN blackFrameNotice(s)
           ELSE IF throws THEN captureErrorNotice(s)
           ELSE sendWsPayload([s EXCEPT !.visionFrames = @ + 1], "camera_frame")
  IN maybeEmitPerfStatus(clearPendingCapture(restoreCamera(a)))

\* ---------------------------------------------------- terrain height
\* A smoothing that blends every sample at the fast rate, a large jump included.
blendsWithoutSnap(h, sampledHeight) == h + Scale(sampledHeight - h, FastBlendPct)

\* The cache after a valid cache h is offered the accepted sample.
smoothTerrainHeight(h, sampledHeight) ==
  LET delta == sampledHeight - h
  IN IF Abs(delta) > SnapDeltaCm THEN sampledHeight
     ELSE IF Abs(delta) > ModerateDeltaCm THEN h + Scale(delta, FastBlendPct)
     ELSE h + Scale(delta, SlowBlendPct)

\* globeHeight: what globe.getHeight answers (NaN: nothing); clampedHeight: the
\* height of the clampToHeight hit (NaN: no hit); throws: a query raises.
\* Heights are in centimetres.  lastSampledHeight notes the sample the cache
\* was offered, NaN when the call ended before offering one.
sampleTerrainHeight(s, globeHeight, clampedHeight, throws) ==
  IF ~s.sceneRef THEN [s EXCEPT !.lastSampledHeight = NaN]
  ELSE IF s.now - s.lastTerrainSampleMs < minTerrainSampleIntervalMs /\ s.terrainHeightValid
  THEN [s EXCEPT !.lastSampledHeight = NaN]
  ELSE LET a == [s EXCEPT !.lastTerrainSampleMs = s.now, !.lastSampledHeight = NaN]
           sampledHeight ==
             IF ~IsFinite(clampedHeight) THEN globeHeight
             ELSE IF ~IsFinite(globeHeight) THEN clampedHeight
             ELSE IF clampedHeight - globeHeight >= -ModerateDeltaCm THEN clampedHeight
             ELSE globeHeight
       IN IF throws THEN a
          ELSE IF ~IsFinite(sampledHeight) \/ Abs(sampledHeight) > maxTerrainHeightCm THEN a
          ELSE IF ~a.terrainHeightValid
          THEN [a EXCEPT !.terrainHeightM = sampledHeight, !.terrainHeightValid = TRUE]
          ELSE [a EXCEPT !.terrainHeightM = smoothTerrainHeight(@, sampledHeight),
                         !.lastSampledHeight = sampledHeight]

\* ------------------------------------------------------------------ Init
\* The robot right after its constructor.  The page has been alive for more
\* than one apply interval by then: the spawn awaits the configuration fetch
\* and the terrain clamp before it constructs the robot.
Constructor(item, theta) ==
  /\ destroyed = FALSE
  /\ ws = NULL
  /\ reconnectTimer = NULL
  /\ latestPayload = NoPayload
  /\ lastProcessedT = NaN
  /\ lastPoseApplyMs = 0
  /\ currentLat = NULL
  /\ currentLon = NULL
  /\ lastStaticPoseRefreshMs = 0
  /\ lastGeoLat = NULL
  /\ lastGeoLon = NULL
  /\ position = <<0, 0>>
  /\ frameCaptureTimer = NULL
  /\ terrainProbeTimer = NULL
  /\ terrainProbeSeq = 0
  /\ pendingVisionCapture = FALSE
  /\ pendingVisionCaptureListener = FALSE
  /\ pendingVisionCaptureRestore = FALSE
  /\ lastCaptureErrorMs = 0
  /\ lastBlackFrameNoticeMs = 0
  /\ lastLuma = NoLuma
  /\ now = minPoseApplyIntervalMs
  /\ perfWindowStartedMs = minPoseApplyIntervalMs
  /\ perfPoseApplied = 0
  /\ perfWsIn = 0
  /\ sceneRef = FALSE
  /\ visionCaptureProvider \in BOOLEAN
  /\ socks = [i \in SocketIds |-> NoSocket]
  /\ nSocks = 0
  /\ timeouts = {}
  /\ intervals = {}
  /\ providerCalls = {}
  /\ capturesStarted = 0
  /\ cameraRepointed = FALSE
  /\ initPc = "constructed"
  /\ streamState = "none"
  /\ prevStreamState = "none"
  /\ liveChannel = 0
  /\ visionFrames = 0
  /\ msgCount = 0
  /\ lastPoseId = 0
  /\ latestArrivalMs = 0
  /\ latestArrivalT = NaN
  /\ latestInWindow = FALSE
  /\ superseded = {}
  /\ shadowed = {}
  /\ appliedIds = {}
  /\ heldId = 0
  /\ missedIds = {}
  /\ runApplies = 0
  /\ runTicks = 0
  /\ storage = item
  /\ modelHeadingOffset = loadHeadingOffsetFromStorage(ConfigHeadingOffset, item)
  /\ headingCalibrationSamples = 0
  /\ headingFastLockComplete = FALSE
  /\ headingAlignedStreak = 0
  /\ smoothedHeadingRad = NaN
  /\ hpRollHeading = 0
  /\ velocity = 0
  /\ lastPosePosition = << >>
  /\ enableLinkAnimation = FALSE
  /\ nodeMapIdentity = TRUE
  /\ dynamicObstacleSeq = 0
  /\ lastObstacles = << >>
  /\ rejections = 0
  /\ statusCalls = 0
  /\ setOffsetReturn = NaN
  /\ storageWritten = FALSE
  /\ frames = 0
  /\ extras = 0
  /\ manualOffset = NaN
  /\ trueOffset = theta
  /\ unsurfaced = FALSE
  /\ malformedMutated = FALSE
  /\ malformedHarmed = FALSE
  /\ lastCandidates = << >>
  /\ obstacleCalls = 0
  /\ nodeMapOutcome = "pending"
  /\ nanSets = 0
  /\ zigzag = FALSE
  /\ calVerdict = "none"
  /\ terrainHeightM = 0
  /\ terrainHeightValid = FALSE
  /\ lastTerrainSampleMs = 0
  /\ lastSampledHeight = NaN
  /\ terrainCalls = 0
  /\ lerpCall = [start |-> 0, end |-> 0, pct |-> 0, result |-> 0]

\* A first visit: nothing is stored under the heading offset key.
Init == Constructor(NoItem, 0)

\* A returning visit or a first one, and the trace the robot is about to be fed.
InitCal ==
  \E item \in StoredItems, theta \in Thetas :
    Constructor(item, theta) /\ visionCaptureProvider

\* --------------------------------------------------------------- actions
\* initialize(): Vehicle.initialize sets sceneRef and awaits the model load.
InitializeStart ==
  /\ initPc = "constructed"
  /\ Commit([S EXCEPT !.sceneRef = TRUE, !.initPc = "loadingModel"])

\* The model load settles (a failure is caught); loadNodeMap starts its fetch.
ModelLoaded ==
  /\ initPc = "loadingModel"
  /\ Commit([S EXCEPT !.initPc = "loadingNodeMap"])

\* loadNodeMap settles; initialize() goes on to connectStream().
LoadNodeMap(outcomes) ==
  /\ initPc = "loadingNodeMap"
  /\ \E outcome \in outcomes :
       Commit(connectStream(loadNodeMap([S EXCEPT !.initPc = "done",
                                                  !.nodeMapOutcome = outcome], outcome)))

\* The deployed page serves the joint map with the model.
NodeMapLoaded == LoadNodeMap({"file"})

\* Any outcome of the fetch.
NodeMapSettled == LoadNodeMap(NodeMapOutcomes)

ProbeOutcomes == IF terrainProbeSeq < MaxProbes THEN BOOLEAN ELSE {FALSE}

WsOpen(i) ==
  /\ socks[i].readyState = "CONNECTING"
  /\ \E resolved \in ProbeOutcomes :
       Commit(onopen([S EXCEPT !.socks[i].readyState = "OPEN", !.liveChannel = i],
                     resolved))

\* A message event on open socket i, drawn from the set M; at most limit
\* messages arrive.
Deliver(i, M, limit) ==
  /\ socks[i].readyState = "OPEN"
  /\ msgCount < limit
  /\ \E m \in M :
       LET isPose == m.hasRoot /\ ~m.malformed /\ ~(m.status /\ m.message) /\ ~m.error
           inWindow == now - lastPoseApplyMs < minPoseApplyIntervalMs
           sameRun == IsFinite(m.t) /\ m.t = latestArrivalT
           close == /\ lastPoseId # 0
                    /\ IsFinite(m.t) /\ IsFinite(latestArrivalT)
                    /\ m.t # latestArrivalT
                    /\ now - latestArrivalMs < minPoseApplyIntervalMs
       IN IF ~isPose
          THEN LET r == onmessage(S, m)
                   statusOnly == ~m.malformed /\ ((m.status /\ m.message) \/ m.error)
               IN Commit([r EXCEPT
                    !.msgCount = @ + 1,
                    !.unsurfaced = @ \/ (statusOnly /\ r.statusCalls = statusCalls),
                    !.malformedMutated = @ \/ (m.malformed /\ r # S),
                    !.malformedHarmed =
                       @ \/ (m.malformed /\ [r EXCEPT !.perfWsIn = perfWsIn] # S)])
          ELSE Commit([onmessage(S, m) EXCEPT
                 !.msgCount = @ + 1,
                 !.lastPoseId = msgCount + 1,
                 !.latestArrivalMs = now,
                 !.latestArrivalT = m.t,
                 !.latestInWindow = inWindow,
                 !.superseded = IF close THEN @ \cup {lastPoseId} ELSE @,
                 !.shadowed = IF latestInWindow /\ inWindow
                              THEN @ \cup {lastPoseId} ELSE @,
                 !.heldId = 0,
                 !.runApplies = IF sameRun THEN @ ELSE 0,
                 !.runTicks = IF sameRun THEN @ ELSE 0])

\* Any inbound message (pose stream under study).
WsMessage(i) == Deliver(i, Messages, MaxMsgs)

\* A well-formed pose fix; it gives the scheduler its telemetry.
WsFix(i) == Deliver(i, FixMessages, MaxFixes)

\* The connection fails: the error event, which the close event follows.
WsError(i) ==
  /\ socks[i].readyState \in {"CONNECTING", "OPEN", "CLOSING"}
  /\ ~socks[i].errorFired
  /\ Commit(onerror([S EXCEPT !.socks[i].readyState = "CLOSED",
                              !.socks[i].errorFired = TRUE]))

\* The close event of socket i (closed by the peer, by a failure or by close()).
WsClose(i) ==
  /\ socks[i].readyState # "NONE"
  /\ ~socks[i].closeFired
  /\ Commit(onclose([S EXCEPT !.socks[i].readyState = "CLOSED",
                              !.socks[i].closeFired = TRUE]))

\* A pending timeout fires: () => this.connectStream()
ReconnectFire ==
  /\ nSocks < MaxSockets
  /\ \E t \in timeouts : Commit(connectStream([S EXCEPT !.timeouts = @ \ {t}]))

CameraTick ==
  /\ \E iv \in intervals : iv.kind = "camera"
  /\ cameraTickStarts(S) => capturesStarted < MaxCaptures
  /\ \E throws \in BOOLEAN : Commit(sendCameraFrame(S, throws))

ProbeTick ==
  /\ \E iv \in intervals : iv.kind = "probe"
  /\ \E resolved \in ProbeOutcomes : Commit(sendTerrainProbe(S, resolved))

ProviderSettle ==
  \E c \in providerCalls : \E outcome \in {"frame", "empty", "rejected"} :
    Commit([providerSettled(S, c, outcome) EXCEPT
              !.rejections = IF outcome = "rejected" THEN @ + 1 ELSE @])

\* A render pass ends while the built-in capture's listener is registered.
PostRender ==
  /\ pendingVisionCaptureListener
  /\ \E luma \in Lumas \cup {NoLuma}, throws \in BOOLEAN :
       Commit([postRenderListener(S, isFrameLikelyBlack(S, luma), throws) EXCEPT
                 !.lastLuma = luma])

\* The render loop's tick.
Update ==
  LET some == latestPayload.id # 0
      applied == updateApplies(S)
      elapsed == now - lastPoseApplyMs >= minPoseApplyIntervalMs
      held == some /\ ~alreadyProcessed(S, latestPayload.t) /\ rateLimited(S)
      missed == heldId # 0 /\ heldId = latestPayload.id /\ elapsed /\ ~applied
  IN Commit([update(S) EXCEPT
       !.appliedIds = IF applied THEN @ \cup {latestPayload.id} ELSE @,
       !.heldId = IF applied THEN 0 ELSE IF held THEN latestPayload.id ELSE @,
       !.missedIds = IF missed THEN @ \cup {heldId} ELSE @,
       !.latestInWindow = IF applied THEN FALSE ELSE @,
       !.runApplies = IF applied THEN @ + 1 ELSE @,
       !.runTicks = IF some /\ @ < 2 THEN @ + 1 ELSE @])

Destroy == Commit(destroy(S))

Advance ==
  \E d \in TimeSteps : now + d <= MaxNow /\ Commit([S EXCEPT !.now = @ + d])

\* The pose message of the next frame of the trace: a step north ("fast",
\* "slow"), a step east ("turn"), no step ("still") or a fix without a
\* latitude ("invalid").  The reported orientation stays theta behind north.
NextFrame(s, kind) ==
  LET lat == IF s.currentLat = NULL THEN 0 ELSE s.currentLat
      lon == IF s.currentLon = NULL THEN 1 ELSE s.currentLon
  IN [malformed |-> FALSE, status |-> FALSE, message |-> FALSE, error |-> FALSE,
      hasRoot |-> TRUE,
      t |-> s.frames + s.extras + 1,
      lat |-> IF kind = "invalid" THEN NaN
              ELSE IF kind \in {"fast", "slow", "edge"} \/ s.currentLat = NULL
              THEN lat + 1 ELSE lat,
      lon |-> IF kind = "turn" /\ s.currentLon # NULL THEN lon + 1 ELSE lon,
      yaw |-> normalizeSignedAngle(-s.trueOffset),
      pace |-> IF kind \in {"slow", "edge"} THEN kind ELSE "fast"]

\* A frame of the trace: its message arrives and the next render tick picks it
\* up.  A steady trace is a run of "fast" frames; anything else draws on the
\* budget of extra events, and so does every frame that follows it.
ApplyFrame(kind) ==
  LET steady == kind = "fast" /\ extras = 0
  IN /\ IF steady THEN frames < MaxFrames ELSE extras < MaxExtras
     /\ Commit(update(onmessage(
           [S EXCEPT !.now = @ + FramePeriodMs,
                     !.frames = IF steady THEN @ + 1 ELSE @,
                     !.extras = IF steady THEN @ ELSE @ + 1],
           NextFrame(S, kind))))

\* A frame of a staircase course: a step north, then a step east, and so on.
ZigZagFrame ==
  /\ frames < MaxZigZagFrames
  /\ extras = 0
  /\ frames = 0 \/ zigzag
  /\ Commit(update(onmessage(
        [S EXCEPT !.now = @ + FramePeriodMs, !.frames = @ + 1, !.zigzag = TRUE],
        NextFrame(S, IF frames % 2 = 0 THEN "fast" ELSE "turn"))))

\* A frame of a straight course.
StraightFrame == ~zigzag /\ ApplyFrame("fast")

\* The operator panel calls setHeadingOffsetRad, which forwards to the robot.
SetOffset(x) ==
  /\ extras < MaxExtras
  /\ Commit([setModelHeadingOffsetRad(S, x) EXCEPT
               !.extras = @ + 1,
               !.manualOffset = IF IsFinite(x) THEN x ELSE @,
               !.nanSets = IF IsFinite(x) THEN @ ELSE @ + 1])

\* The stream lifecycle and the capture scheduler.  They read the clock only
\* to rate-limit notices, so the clock stands still here; pose timing is
\* explored by NextPose.
Next ==
  \/ InitializeStart
  \/ ModelLoaded
  \/ NodeMapLoaded
  \/ \E i \in SocketIds : WsOpen(i)
  \/ \E i \in SocketIds : WsFix(i)
  \/ \E i \in SocketIds : WsError(i)
  \/ \E i \in SocketIds : WsClose(i)
  \/ ReconnectFire
  \/ CameraTick
  \/ ProbeTick
  \/ ProviderSettle
  \/ PostRender
  \/ Update
  \/ Destroy

Spec == Init /\ [][Next]_vars

\* The pose stream on a channel that stays open: message arrivals, render
\* ticks and the passing of time in any interleaving.
NextPose ==
  \/ InitializeStart
  \/ ModelLoaded
  \/ NodeMapLoaded
  \/ \E i \in SocketIds : WsOpen(i)
  \/ \E i \in SocketIds : WsMessage(i)
  \/ Update
  \/ Advance

\* The capture provider plays no part here.
InitPose == Init /\ visionCaptureProvider

SpecPose == InitPose /\ [][NextPose]_vars

\* The traffic layer reports the vehicles around the robot.
SendObstacles ==
  /\ obstacleCalls < MaxObstacleCalls
  /\ \E obstacles \in CandidateLists :
       Commit([sendDynamicObstacles(S, obstacles) EXCEPT
                 !.lastCandidates = obstacles,
                 !.obstacleCalls = @ + 1])

\* Obstacle reports over the life of one connection.
NextObs ==
  \/ InitializeStart
  \/ ModelLoaded
  \/ NodeMapLoaded
  \/ \E i \in SocketIds : WsOpen(i)
  \/ \E i \in SocketIds : WsClose(i)
  \/ SendObstacles

SpecObs == Init /\ [][NextObs]_vars

\* Start-up with any outcome of the joint map fetch, and the connection after it.
NextStart ==
  \/ InitializeStart
  \/ ModelLoaded
  \/ NodeMapSettled
  \/ \E i \in SocketIds : WsOpen(i)
  \/ \E i \in SocketIds : WsFix(i)
  \/ \E i \in SocketIds : WsError(i)
  \/ \E i \in SocketIds : WsClose(i)
  \/ ReconnectFire
  \/ Update
  \/ Destroy

SpecStart == Init /\ [][NextStart]_vars

\* Heading calibration: a motion trace and the operator's overrides.
NextCal ==
  \/ \E kind \in FrameKinds : ApplyFrame(kind)
  \/ \E x \in ManualOffsets \cup {NaN} : SetOffset(x)

SpecCal == InitCal /\ [][NextCal]_vars

\* applyPose resolves the terrain height at the fix of the frame it applies;
\* the height enters the altitude of the render position and nothing else.
SampleTerrain ==
  /\ terrainCalls < MaxTerrainCalls
  /\ \E dt \in TerrainSteps, globeHeight \in GlobeHeights, clampedHeight \in ClampedHeights,
        throws \in BOOLEAN :
       Commit(sampleTerrainHeight([S EXCEPT !.now = @ + dt, !.terrainCalls = @ + 1],
                                  globeHeight, clampedHeight, throws))

\* The terrain height cache over the frames of one session.
NextTerrain ==
  \/ InitializeStart
  \/ SampleTerrain

SpecTerrain == Init /\ [][NextTerrain]_vars

\* A heading blend with any arguments: applyRootTransform blends the reported
\* heading toward the course and the smoothed heading toward the result.
LerpCall ==
  \E start \in LerpAngles, end \in LerpAngles, pct \in LerpPcts :
    Commit([S EXCEPT !.lerpCall = [start |-> start, end |-> end, pct |-> pct,
                                   result |-> lerpAngle(start, end, pct)]])

NextLerp == LerpCall

SpecLerp == Init /\ [][NextLerp]_vars

\* Calibration on a straight course and on a staircase course, from the first
\* sample to the end of the budget or to a manual override.
NextLock ==
  \/ StraightFrame
  \/ ZigZagFrame
  \/ \E x \in ManualOffsets : SetOffset(x)

SpecLock == InitCal /\ [][NextLock]_vars


\* ------------------------------------------------------------ pose claims
\* C1: a payload that a tick held back because the apply interval had not
\* elapsed is applied by a later tick once the interval has elapsed, provided
\* no newer payload arrived: no tick ever finds the held payload still the
\* latest with the interval elapsed and yet fails to apply it.
C1_HeldPayloadIsRetried == missedIds = {}

C3_OnlyLastOfCloseArrivals == superseded \cap appliedIds = {}

\* C3 amended: of the payloads that arrive while the apply interval since the
\* last applied pose is still running, none but the last is ever applied.
C3_OnlyLastOfWindow == shadowed \cap appliedIds = {}

\* A payload was overwritten inside the window and a later one was applied.
C3_Witness ==
  \E a \in shadowed : \E b \in appliedIds : b > a /\ b = latestPayload.id

\* ------------------------------------------- stream and scheduler claims
\* C4: at most one camera capture is in flight at any time, counting the
\* provider calls that have not settled and the built-in capture whose
\* post-render listener is registered.
C4_SingleFlightCapture ==
  Cardinality(providerCalls) + (IF pendingVisionCaptureListener THEN 1 ELSE 0) <= 1

\* C5: every close event on a robot that is not destroyed leaves the stream
\* offline with exactly one reconnect pending, due after the reconnect delay;
\* when that timer fires a new channel is opened and the stream is connecting.
C5_CloseSchedulesOneReconnect ==
  /\ [][\A i \in SocketIds : (WsClose(i) /\ ~destroyed) =>
          /\ streamState' = "offline"
          /\ timeouts' = {[id |-> reconnectTimer', ms |-> ReconnectDelayMs]}]_vars
  /\ [][ReconnectFire =>
          /\ nSocks' = nSocks + 1
          /\ ws' = nSocks'
          /\ socks'[ws'].readyState = "CONNECTING"
          /\ streamState' = "connecting"
          /\ timeouts' = {}]_vars

\* A reconnected channel has closed in its turn and a reconnect is pending again.
C5_Witness ==
  /\ ~destroyed
  /\ nSocks >= 2
  /\ \A i \in 1..nSocks : socks[i].closeFired
  /\ timeouts = {[id |-> reconnectTimer, ms |-> ReconnectDelayMs]}

\* C6: once destroyed, the robot has no reconnect timer pending and holds no
\* channel, and no step ever opens a channel or revives the robot.
C6_NoReconnectAfterDestroy ==
  /\ [](destroyed => (timeouts = {} /\ reconnectTimer = NULL /\ ws = NULL))
  /\ [][destroyed => (destroyed' /\ nSocks' = nSocks /\ streamState' = "offline")]_vars

\* destroy() ran while initialize() was still loading; initialize() finished
\* afterwards and opened nothing.
C6_Witness == destroyed /\ initPc = "done" /\ nSocks = 0

C8_StuckProviderBlocksSlot ==
  /\ []((~destroyed /\ providerCalls # {}) => pendingVisionCapture)
  /\ [][(~destroyed /\ providerCalls # {}) => capturesStarted' = capturesStarted]_vars

\* C9: the capture timer and the probe timer exist only while the stream is
\* live on an open channel of a robot that is not destroyed, and both are
\* running right after the channel opens.
C9_TimersOnlyWhileLive ==
  /\ [](intervals # {} => (streamState = "live" /\ ~destroyed /\ canSendToServer(S)))
  /\ []((frameCaptureTimer = NULL /\ terrainProbeTimer = NULL) => intervals = {})
  /\ [][(\E i \in SocketIds : WsOpen(i)) =>
          {iv.kind : iv \in intervals'} = {"camera", "probe"}]_vars

\* A channel that had opened reported an error: offline, no timer left.
C9_Witness ==
  /\ \E i \in SocketIds :
       socks[i].errorFired /\ ~socks[i].closeFired /\ socks[i].sent # << >>
  /\ streamState = "offline"
  /\ intervals = {}
  /\ ~destroyed

\* C10: after destroy no frame is surfaced through onVisionFrame, nothing is
\* sent on any channel, and no capture or terrain probe is started.
C10_NothingSurfacesAfterDestroy ==
  [][destroyed =>
       /\ visionFrames' = visionFrames
       /\ \A i \in SocketIds : socks'[i].sent = socks[i].sent
       /\ capturesStarted' = capturesStarted
       /\ terrainProbeSeq' = terrainProbeSeq
       /\ intervals' = {}]_vars

\* ------------------------------------------------------------------ C11
\* C11: once setModelHeadingOffsetRad has been called with a finite x, the
\* calibration offset is x normalised to [-pi, pi] after every later frame,
\* whatever its motion heading and speed, and the stored value is that offset:
\* automatic calibration neither changes it nor persists another value.
C11_ManualOverrideStays ==
  IsFinite(manualOffset) =>
    /\ modelHeadingOffset = normalizeSignedAngle(manualOffset)
    /\ -Pi <= modelHeadingOffset /\ modelHeadingOffset <= Pi
    /\ storage = NumItem(modelHeadingOffset)

\* A robot under way was overridden, and a further frame of its northward
\* course, fast enough to calibrate on, has been applied since.
C11_Witness ==
  /\ IsFinite(manualOffset)
  /\ extras = MaxExtras
  /\ frames >= 3
  /\ lastProcessedT = frames + MaxExtras
  /\ currentLat = frames + 1
  /\ velocity >= MinCalibrationSpeed

\* ------------------------------------------------------------------ C12
\* C12: on a steady trace (constant true offset, every frame a step at a speed
\* above the threshold) fast lock has exited by the end of the trace, within
\* its budget of 90 samples, with the flag set and the offset persisted, and
\* the offset then lies within a small tolerance of the true offset; the
\* tolerance is taken as wide as the 15 degrees the calibration itself counts
\* as aligned.
C12_FastLockConverges ==
  /\ (extras = 0 /\ frames = MaxFrames) => headingFastLockComplete
  /\ (extras = 0 /\ headingFastLockComplete) =>
        /\ headingCalibrationSamples <= MaxFrames
        /\ storageWritten
        /\ storage.kind = "num"
        /\ Abs(normalizeSignedAngle(trueOffset - modelHeadingOffset)) <= AlignedErrorRad

\* ------------------------------------------------------------------ C13
\* C13 (as stated): an inbound message with type "status", or with a non-empty
\* error string, is surfaced through the status callback and never becomes the
\* stored latest payload, also when it carries a root pose.
C13_StatusTypeNeverStored ==
  /\ ~unsurfaced
  /\ latestPayload.id # 0 => ~latestPayload.status /\ ~latestPayload.error

\* C13 (amended): an inbound message with type "status" and a string message,
\* or with a non-empty error string, is surfaced through the status callback
\* and never becomes the stored latest payload, which is all a tick applies,
\* also when it carries a root pose.
C13_StatusOnlyNeverStored ==
  /\ ~unsurfaced
  /\ latestPayload.id # 0 =>
        ~(latestPayload.status /\ latestPayload.message) /\ ~latestPayload.error

\* The first message was stored as the latest payload; the two after it were
\* status-only with a root pose of their own, were surfaced, and left it there.
C13_Witness ==
  /\ msgCount = 3
  /\ statusCalls = 2
  /\ latestPayload.id = 1
  /\ ~unsurfaced

\* ------------------------------------------------------------------ C14
\* C14 (as stated): a message that fails to parse is caught and leaves every
\* field of the client as it was.
C14_MalformedMutatesNothing == ~malformedMutated

\* C14 (amended): a message that fails to parse is caught and leaves every
\* field of the client as it was, but for the count of inbound messages kept
\* for the performance report; the stored payload, the last processed
\* timestamp, pose, terrain and calibration state are untouched.
C14_MalformedOnlyCounted == ~malformedHarmed

\* A malformed message arrived while a payload was stored.
C14_Witness ==
  /\ malformedMutated
  /\ latestPayload.id # 0
  /\ latestPayload.id < msgCount
  /\ lastPoseId = latestPayload.id

C16_ObstaclesValidated ==
  [][(obstacleCalls' # obstacleCalls /\ canSendToServer(S)) =>
       LET Valid(item) == /\ item.id # ""
                          /\ item.lat # NaN /\ item.lon # NaN
                          /\ item.radiusM # NaN /\ item.radiusM > 0
           valid == SelectSeq(lastCandidates', Valid)
       IN IF valid # << >>
          THEN /\ dynamicObstacleSeq' = dynamicObstacleSeq + 1
               /\ lastObstacles' = valid
               /\ socks'[ws].sent = Append(socks[ws].sent, "dynamic_obstacles")
          ELSE UNCHANGED <<dynamicObstacleSeq, lastObstacles, socks>>]_vars

\* A list of one unusable candidate followed by a good one went out as a
\* message holding the good one alone.
C16_Witness ==
  /\ obstacleCalls = 1
  /\ Len(lastCandidates) = 2
  /\ lastCandidates[1].radiusM <= 0
  /\ Len(lastObstacles) = 1
  /\ lastObstacles[1] = lastCandidates[2]
  /\ dynamicObstacleSeq = 1

\* ------------------------------------------------------------------ C17
\* C17: when the joint map cannot be fetched (the fetch is rejected, the
\* response is not ok, or the body does not parse) link retargeting runs on the
\* identity mapping with no ignored joints and with link animation enabled.
C17_FetchFailureEnablesAnimation ==
  nodeMapOutcome \in {"networkError", "notOk", "badJson"} =>
    nodeMapIdentity /\ enableLinkAnimation

\* ------------------------------------------------------------------ C18
\* C18: setModelHeadingOffsetRad with a non-finite argument returns the current
\* offset and leaves the offset, the sample count, the fast-lock flag, the
\* aligned streak and the stored value as they were.
C18_NonFiniteOverrideIgnored ==
  [][nanSets' # nanSets =>
       /\ setOffsetReturn' = modelHeadingOffset
       /\ UNCHANGED <<modelHeadingOffset, headingCalibrationSamples,
                      headingFastLockComplete, headingAlignedStreak,
                      storage, storageWritten>>]_vars

\* A non-finite override came in the middle of fast lock, and the frame after
\* it was sampled and moved the offset on from the value the call returned.
C18_Witness ==
  /\ nanSets = 1
  /\ extras = 2
  /\ ~headingFastLockComplete
  /\ headingCalibrationSamples >= 2
  /\ lastProcessedT = frames + 2
  /\ IsFinite(setOffsetReturn)
  /\ setOffsetReturn # modelHeadingOffset

\* ------------------------------------------------------------------ C19
\* C19 (as stated): whenever a provider call settles, with a frame, with none
\* or by rejecting, the capture slot is released, so that the next camera tick
\* on an open channel starts a capture; and every rejection is reported
\* through the status callback.
C19_SettleReleasesAndReports ==
  /\ [](statusCalls >= rejections)
  /\ [][Cardinality(providerCalls') < Cardinality(providerCalls) =>
          /\ ~pendingVisionCapture'
          /\ canSendToServer(S') => cameraTickStarts(S')]_vars

\* C19 (amended): whenever a provider call settles, with a frame, with none or
\* by rejecting, the capture slot is released, so that the next camera tick on
\* an open channel starts a capture; a rejection is reported through the
\* status callback unless a capture error was reported within the last 6 s.
C19_SettleReleasesSlot ==
  /\ [][Cardinality(providerCalls') < Cardinality(providerCalls) =>
          /\ ~pendingVisionCapture'
          /\ canSendToServer(S') => cameraTickStarts(S')]_vars
  /\ [][rejections' # rejections =>
          statusCalls' = statusCalls +
            (IF DateNow(S) - lastCaptureErrorMs > CaptureErrorCooldownMs THEN 1 ELSE 0)]_vars

\* The first provider call was rejected and reported; on the same open channel
\* the next tick started a second capture.
C19_Witness ==
  /\ rejections = 1
  /\ statusCalls = 1
  /\ capturesStarted = 2
  /\ nSocks = 1
  /\ Cardinality(providerCalls) = 1
  /\ pendingVisionCapture

\* ------------------------------------------------------------------ C20
\* C20: every value the robot writes under the storage key is a finite angle in
\* [-pi, pi], and the offset in memory lies in [-pi, pi] after the load at
\* construction and after any sequence of calibration samples and overrides.
C20_OffsetNormalized ==
  /\ -Pi <= modelHeadingOffset /\ modelHeadingOffset <= Pi
  /\ storageWritten =>
        /\ storage.kind = "num"
        /\ IsFinite(storage.v)
        /\ -Pi <= storage.v /\ storage.v <= Pi

\* After a run of calibration samples the operator set an offset beyond pi; what
\* was stored is that angle brought back into range.
C20_Witness ==
  /\ frames >= AlignedStreakGoal
  /\ IsFinite(manualOffset) /\ manualOffset > Pi
  /\ storageWritten
  /\ storage = NumItem(manualOffset - TwoPi)

\* ------------------------------------------------------------------ C21
\* C21: the first message sent on a connection is its session_start: no
\* terrain_probe or camera_frame precedes it.
C21_SessionStartFirst ==
  \A i \in SocketIds :
    socks[i].sent # << >> => Head(socks[i].sent) = "session_start"

\* ------------------------------------------------------------------ C22
\* What a frame's calibration step is given: the course of the step from the
\* previous fix, and the error between it and the heading the model shows.
CalMoveHeading == estimateMotionHeading(S, currentLat', currentLon')

CalError == normalizeSignedAngle(CalMoveHeading - (hpRollHeading' + modelHeadingOffset))

\* The frame's sample passes the four guards of the calibration step.
CalAccepted ==
  /\ now' # now
  /\ CalMoveHeading # NullHeading
  /\ velocity >= MinCalibrationSpeed
  /\ headingCalibrationSamples < MaxCalibrationSamples
  /\ Abs(CalError) <= OutlierErrorRad

\* C22: during fast lock every accepted sample increments the sample count and
\* increments the aligned streak when the error is at most 15 degrees, resetting
\* it to 0 otherwise; fast lock ends exactly at the accepted sample after which
\* the streak is at least 20 or the count at least 90, and that step persists
\* the offset and announces completion once, while no other fast-lock sample
\* persists or announces anything.
C22_FastLockSteps ==
  [][(CalAccepted /\ ~headingFastLockComplete) =>
       /\ headingCalibrationSamples' = headingCalibrationSamples + 1
       /\ headingAlignedStreak' =
            IF Abs(CalError) <= AlignedErrorRad THEN headingAlignedStreak + 1 ELSE 0
       /\ headingFastLockComplete' =
            (headingAlignedStreak' >= AlignedStreakGoal
               \/ headingCalibrationSamples' >= FastLockSamples)
       /\ IF headingFastLockComplete'
          THEN /\ storage' = NumItem(modelHeadingOffset')
               /\ storageWritten'
               /\ statusCalls' = statusCalls + 1
          ELSE /\ storage' = storage
               /\ statusCalls' = statusCalls]_vars

\* Fast lock has ended on the sample budget: 90 samples were taken and the
\* streak never reached 20.
C22_Witness ==
  /\ headingFastLockComplete
  /\ headingCalibrationSamples = FastLockSamples
  /\ headingAlignedStreak < AlignedStreakGoal
  /\ statusCalls = 1
  /\ storage = NumItem(modelHeadingOffset)

\* ------------------------------------------------------------------ C23
\* C23 as stated: a frame's calibration step leaves the offset, the sample
\* count, the aligned streak, the fast-lock flag and the persisted value alone
\* when there is no motion heading, when the speed does not exceed the
\* threshold, when the budget is exhausted, or when the error exceeds 70 degrees.
C23_RejectedChangesNothing ==
  [][(/\ now' # now
      /\ \/ CalMoveHeading = NullHeading
         \/ velocity <= MinCalibrationSpeed
         \/ headingCalibrationSamples >= MaxCalibrationSamples
         \/ Abs(CalError) > OutlierErrorRad)
     => UNCHANGED <<modelHeadingOffset, headingCalibrationSamples, headingAlignedStreak,
                    headingFastLockComplete, storage>>]_vars

\* C23 amended: the same with the speed guard as the code has it, a speed
\* below the threshold; a speed equal to the threshold calibrates.
C23_BelowThresholdChangesNothing ==
  [][(now' # now /\ ~CalAccepted)
     => UNCHANGED <<modelHeadingOffset, headingCalibrationSamples, headingAlignedStreak,
                    headingFastLockComplete, storage>>]_vars

\* An outlier arrived during fast lock while a streak was running, and the
\* streak and the count stand as they were.
C23_Witness ==
  /\ calVerdict = "outlier"
  /\ ~headingFastLockComplete
  /\ headingAlignedStreak > 0
  /\ headingCalibrationSamples >= headingAlignedStreak

\* ------------------------------------------------------------------ C24
\* C24: the shared render camera is away from its saved pose only while a
\* built-in capture is pending; after every way a capture ends (frame sent,
\* black frame, exception, cancellation by stream offline, scheduler restart or
\* destroy()) the camera is back at the pose it was saved with.
C24_CameraRestored ==
  cameraRepointed =>
    /\ pendingVisionCapture
    /\ pendingVisionCaptureRestore
    /\ pendingVisionCaptureListener
    /\ ~visionCaptureProvider
    /\ ~destroyed

\* Two built-in captures have come and gone, one of them with a frame sent and
\* one without, and the robot was destroyed; the camera is at its saved pose.
C24_Witness ==
  /\ ~visionCaptureProvider
  /\ capturesStarted = 2
  /\ visionFrames = 1
  /\ ~pendingVisionCapture
  /\ ~cameraRepointed
  /\ destroyed

\* ------------------------------------------------------------------ C25
\* C25: a render pass of the built-in capture whose average luma is below the
\* threshold sends no camera_frame and surfaces no vision frame; it releases
\* the capture slot, restores the camera and leaves the camera timer running,
\* so that the next tick of the timer starts a capture again.
C25_BlackFrameDiscarded ==
  [][(pendingVisionCaptureListener /\ lastLuma' # NoLuma /\ lastLuma' < BlackLumaTenths
        /\ PostRender) =>
       /\ \A i \in SocketIds : socks'[i].sent = socks[i].sent
       /\ visionFrames' = visionFrames
       /\ ~pendingVisionCapture'
       /\ ~pendingVisionCaptureListener'
       /\ ~cameraRepointed'
       /\ frameCaptureTimer' = frameCaptureTimer
       /\ intervals' = intervals]_vars

\* The first capture on the connection ended on a black frame, nothing was
\* sent for it, and the next tick has started a second capture.
C25_Witness ==
  /\ lastLuma # NoLuma /\ lastLuma < BlackLumaTenths
  /\ capturesStarted = 2
  /\ pendingVisionCapture /\ pendingVisionCaptureListener
  /\ visionFrames = 0
  /\ nSocks = 1
  /\ \A k \in DOMAIN socks[1].sent : socks[1].sent[k] # "camera_frame"

\* ------------------------------------------------------------------ C26
\* C26: live is emitted only directly after connecting, and for the channel
\* that connecting was emitted for (the newest one); connecting is emitted only
\* as the first state or directly after offline; and once destroy() has run,
\* the last state emitted is offline for good.
C26_StreamStateCycle ==
  /\ streamState = "live" => (prevStreamState = "connecting" /\ liveChannel = nSocks)
  /\ streamState = "connecting" => prevStreamState \in {"none", "offline"}
  /\ destroyed => streamState = "offline"

\* The second channel is live: connecting, live, offline, connecting, live
\* have been emitted.
C26_Witness ==
  /\ streamState = "live"
  /\ prevStreamState = "connecting"
  /\ liveChannel = 2
  /\ nSocks = 2
  /\ ~destroyed

\* ------------------------------------------------------------------ C27
\* C27: when a valid cached height h is offered an accepted sample s, the cache
\* becomes s if |s - h| exceeds the snap threshold; otherwise it moves toward s
\* by 0.75 (s - h) when |s - h| exceeds 2 and by 0.5 (s - h) when it does not
\* (to the nearest centimetre), never past s.
C27_TerrainSmoothing ==
  [][(terrainHeightValid /\ IsFinite(lastSampledHeight') /\ terrainCalls' # terrainCalls) =>
       LET h == terrainHeightM
           s == lastSampledHeight'
           move == terrainHeightM' - h
           rate == IF Abs(s - h) > ModerateDeltaCm THEN FastBlendPct ELSE SlowBlendPct
       IN IF Abs(s - h) > SnapDeltaCm THEN terrainHeightM' = s
          ELSE /\ Abs(100 * move - rate * (s - h)) <= 50
               /\ Abs(move) <= Abs(s - h)
               /\ move * (s - h) >= 0]_vars

\* The cache held 1201 cm and was offered 1 cm: a delta of exactly 12 m, which
\* is blended, not snapped.
C27_Witness ==
  /\ terrainHeightValid
  /\ lastSampledHeight = 1
  /\ terrainHeightM = 301
  /\ terrainCalls = 2

\* ------------------------------------------------------------------ C28
\* The signed shortest way round the circle from angle a to angle b, in [-pi, pi).
ShortestArc(a, b) == ((b - a + Pi) % TwoPi) - Pi

\* The blend went the short way: the result is the start plus the factor's
\* share of the shortest arc, up to whole turns; half a turn may go either way.
LerpOnShortestArc ==
  LET arc == ShortestArc(lerpCall.start, lerpCall.end)
  IN \E way \in IF Abs(arc) = Pi THEN {Pi, -Pi} ELSE {arc} :
       (lerpCall.result - lerpCall.start - Scale(way, lerpCall.pct)) % TwoPi = 0

\* C28 as stated: lerpAngle moves along the shortest circular arc from start
\* toward end and returns an angle in [0, 2 pi); from 350 degrees toward 10 the
\* result never lies between 10 and 350 degrees.
C28_LerpHalfOpenRange ==
  /\ LerpOnShortestArc
  /\ 0 <= lerpCall.result /\ lerpCall.result < TwoPi
  /\ (lerpCall.start = 61087 /\ lerpCall.end = 1745) =>
        (lerpCall.result >= 61087 \/ lerpCall.result <= 1745)

\* C28 amended: the same with the result in [0, 2 pi], 2 pi standing for 0.
C28_LerpShortestArc ==
  /\ LerpOnShortestArc
  /\ 0 <= lerpCall.result /\ lerpCall.result <= TwoPi
  /\ (lerpCall.start = 61087 /\ lerpCall.end = 1745) =>
        (lerpCall.result >= 61087 \/ lerpCall.result <= 1745)

\* From 350 degrees toward 10 at the rate the pose composer uses: the blend
\* has crossed 0 and stands at 4.4 degrees.
C28_Witness ==
  /\ lerpCall.start = 61087
  /\ lerpCall.end = 1745
  /\ lerpCall.pct = 72
  /\ lerpCall.result = 768

\* ------------------------------------------------------------------ C29
\* C29: the sample count stays within 0..360 and the aligned streak within
\* 0..20; while the fast-lock flag is false the count is below 90 and the
\* streak below 20; and the flag, once true, stays true.
C29_CalibrationCounters ==
  /\ [](/\ 0 <= headingCalibrationSamples
        /\ headingCalibrationSamples <= MaxCalibrationSamples
        /\ 0 <= headingAlignedStreak
        /\ headingAlignedStreak <= AlignedStreakGoal
        /\ ~headingFastLockComplete =>
              /\ headingCalibrationSamples < FastLockSamples
              /\ headingAlignedStreak < AlignedStreakGoal)
  /\ [][headingFastLockComplete => headingFastLockComplete']_vars

\* The budget ran out on its own: 360 samples without an override, and a
\* further frame that was turned away at the budget guard.
C29_Witness ==
  /\ headingCalibrationSamples = MaxCalibrationSamples
  /\ headingFastLockComplete
  /\ extras = 0
  /\ calVerdict = "exhausted"

\* ------------------------------------------------------------------ C30
\* The interval timers of one kind that are active in state s.
ActiveTimers(s, kind) == {iv \in s.intervals : iv.kind = kind}

\* C30: at most one camera timer and at most one probe timer are active, and
\* they are the ones the robot holds the handles of; and starting the scheduler
\* in any state, one with the timers running included, leaves exactly one of
\* each.
C30_NoTimerLeak ==
  /\ Cardinality(ActiveTimers(S, "camera")) <= 1
  /\ Cardinality(ActiveTimers(S, "probe")) <= 1
  /\ \A iv \in intervals :
       iv.id = IF iv.kind = "camera" THEN frameCaptureTimer ELSE terrainProbeTimer
  /\ LET r == startPerceptionStreaming(S, FALSE)
     IN /\ ActiveTimers(r, "camera") =
             {[id |-> r.frameCaptureTimer, kind |-> "camera", ms |-> frameCaptureIntervalMs]}
        /\ ActiveTimers(r, "probe") =
             {[id |-> r.terrainProbeTimer, kind |-> "probe", ms |-> terrainProbeIntervalMs]}

\* The first channel has closed and the reconnect has opened a second one: one
\* timer of each kind is running.
C30_Witness ==
  /\ nSocks = 2
  /\ socks[1].closeFired
  /\ socks[2].readyState = "OPEN"
  /\ Cardinality(ActiveTimers(S, "camera")) = 1
  /\ Cardinality(ActiveTimers(S, "probe")) = 1
  /\ timeouts = {}

====
